---- MODULE Spec2Model ----
(***************************************************************************)
(* Model of the `queues` crate (src/src/lib.rs): the three FIFO containers *)
(* Queue<T>, Buffer<T> and CircularBuffer<T> behind the IsQueue<T> trait.  *)
(*                                                                         *)
(* One container is constructed (Init) and then driven through add,        *)
(* remove and peek.  Every method is a pure operator from the receiver     *)
(* to the pair (receiver after the call, returned Result); the actions     *)
(* apply it and append the call to `log`.                                  *)
(*                                                                         *)
(* Encoding of the Rust values:                                            *)
(*   Option<T>   None = <<>>, Some(x) = <<x>>                              *)
(*   Result      [tag, val, msg]; tag is "Ok" or "Err".  The payload of an *)
(*               Ok is kept in `val` as an Option: add's Ok(None) and      *)
(*               Ok(Some(x)) are val = None and val = Some(x); the Ok(x)   *)
(*               of remove and peek is val = Some(x).  msg is the &str of  *)
(*               an Err.                                                   *)
(*   Vec<T>      a sequence, index 1 is Vec index 0                        *)
(***************************************************************************)
EXTENDS Integers, Sequences, FiniteSets

VARIABLES variant, ctor, self, log

vars == <<variant, ctor, self, log>>

(* ------------------------------ bounds --------------------------------- *)

\* element values are 1..NumVals
NumVals == 2
\* capacities given to the constructors are 0..MaxCap
MaxCap == 3
\* number of method calls made on the container
MaxOps == 5
\* number of arguments given to queue!
MaxArgs == 3

Vals == 1..NumVals
Caps == 0..MaxCap

(* --------------------------- Option / Result --------------------------- *)

None == <<>>
Some(x) == <<x>>

Ok(opt) == [tag |-> "Ok", val |-> opt, msg |-> ""]
Err(m) == [tag |-> "Err", val |-> None, msg |-> m]

(* ------------------------------ Vec<T> --------------------------------- *)

\* Vec::push
push(q, v) == Append(q, v)

\* Vec::remove(0usize): the element at index 0, the rest shifted left
remove0(q) == [elem |-> Head(q), rest |-> Tail(q)]

\* Vec::is_empty
is_empty(q) == Len(q) = 0

\* slice::first
first(q) == IF Len(q) = 0 THEN None ELSE Some(q[1])

\* vec![elem; n]
vec_repeat(elem, n) == [i \in 1..n |-> elem]

(* ------------------------------ Queue<T> ------------------------------- *)

Queue_new == [queue |-> <<>>]

Queue_default == [queue |-> <<>>]

Queue_add(s, val) ==
    [self |-> [s EXCEPT !.queue = push(s.queue, val)], ret |-> Ok(None)]

\* a slip: pops the newest element (Vec::pop) instead of index 0
Queue_remove_lifo(s) ==
    IF ~is_empty(s.queue)
    THEN [self |-> [s EXCEPT !.queue = SubSeq(s.queue, 1, Len(s.queue) - 1)],
          ret |-> Ok(Some(s.queue[Len(s.queue)]))]
    ELSE [self |-> s, ret |-> Err("The queue is empty")]

Queue_remove(s) ==
    IF ~is_empty(s.queue)
    THEN [self |-> [s EXCEPT !.queue = remove0(s.queue).rest],
          ret |-> Ok(Some(remove0(s.queue).elem))]
    ELSE [self |-> s, ret |-> Err("The queue is empty")]

\* a slip: peek takes the element out (Vec::remove for slice::first)
Queue_peek_consume(s) ==
    IF first(s.queue) # None
    THEN [self |-> [s EXCEPT !.queue = remove0(s.queue).rest],
          ret |-> Ok(first(s.queue))]
    ELSE [self |-> s, ret |-> Err("The Queue is empty")]

Queue_peek(s) ==
    IF first(s.queue) # None
    THEN [self |-> s, ret |-> Ok(first(s.queue))]
    ELSE [self |-> s, ret |-> Err("The Queue is empty")]

Queue_size(s) == Len(s.queue)

\* the repetition $( let _ = temp_q.add($x); )* of queue!, left to right
RECURSIVE queue_adds(_, _)
queue_adds(temp_q, xs) ==
    IF Len(xs) = 0
    THEN temp_q
    ELSE queue_adds(Queue_add(temp_q, Head(xs)).self, Tail(xs))

\* a slip: the arguments are added from right to left
RECURSIVE queue_adds_reversed(_, _)
queue_adds_reversed(temp_q, xs) ==
    IF Len(xs) = 0
    THEN temp_q
    ELSE queue_adds_reversed(Queue_add(temp_q, xs[Len(xs)]).self,
                             SubSeq(xs, 1, Len(xs) - 1))

queue_macro_reversed(xs) ==
    IF Len(xs) = 0 THEN Queue_new ELSE queue_adds_reversed(Queue_default, xs)

\* queue![x1, ..., xn]: the arm () for no argument, the arm ($($x:expr),+)
\* otherwise
queue_macro(xs) ==
    IF Len(xs) = 0 THEN Queue_new ELSE queue_adds(Queue_default, xs)

(* ------------------------------ Buffer<T> ------------------------------ *)

Buffer_new(capacity) == [queue |-> <<>>, capacity |-> capacity]

Buffer_capacity(s) == s.capacity

\* a slip: <= for < in the capacity guard
Buffer_add_offbyone(s, val) ==
    IF Len(s.queue) <= s.capacity
    THEN [self |-> [s EXCEPT !.queue = push(s.queue, val)], ret |-> Ok(None)]
    ELSE [self |-> s, ret |-> Err("The buffer is full")]

Buffer_add(s, val) ==
    IF Len(s.queue) < s.capacity
    THEN [self |-> [s EXCEPT !.queue = push(s.queue, val)], ret |-> Ok(None)]
    ELSE [self |-> s, ret |-> Err("The buffer is full")]

\* a slip: returns the oldest element without taking it out
Buffer_remove_keep(s) ==
    IF ~is_empty(s.queue)
    THEN [self |-> s, ret |-> Ok(Some(s.queue[1]))]
    ELSE [self |-> s, ret |-> Err("The buffer is empty")]

Buffer_remove(s) ==
    IF ~is_empty(s.queue)
    THEN [self |-> [s EXCEPT !.queue = remove0(s.queue).rest],
          ret |-> Ok(Some(remove0(s.queue).elem))]
    ELSE [self |-> s, ret |-> Err("The buffer is empty")]

\* a slip: peek reads the newest element (slice::last for slice::first)
Buffer_peek_newest(s) ==
    IF first(s.queue) # None
    THEN [self |-> s, ret |-> Ok(Some(s.queue[Len(s.queue)]))]
    ELSE [self |-> s, ret |-> Err("The buffer is empty")]

Buffer_peek(s) ==
    IF first(s.queue) # None
    THEN [self |-> s, ret |-> Ok(first(s.queue))]
    ELSE [self |-> s, ret |-> Err("The buffer is empty")]

Buffer_size(s) == Len(s.queue)

(* -------------------------- CircularBuffer<T> -------------------------- *)

CircularBuffer_new(capacity) ==
    [queue |-> <<>>, capacity |-> capacity, default_value |-> None]

\* a slip: the queue is not pre-filled
CircularBuffer_with_default_unfilled(capacity, default_value) ==
    [queue |-> <<>>, capacity |-> capacity,
     default_value |-> Some(default_value)]

CircularBuffer_with_default(capacity, default_value) ==
    [queue |-> vec_repeat(default_value, capacity),
     capacity |-> capacity,
     default_value |-> Some(default_value)]

CircularBuffer_capacity(s) == s.capacity

\* a slip: the overflow branch pushes and evicts nothing
CircularBuffer_add_noevict(s, val) ==
    [self |-> [s EXCEPT !.queue = push(s.queue, val)], ret |-> Ok(None)]

\* a slip: the overflow branch hands back the newest element, not index 0
CircularBuffer_add_newest(s, val) ==
    IF Len(s.queue) < s.capacity
    THEN [self |-> [s EXCEPT !.queue = push(s.queue, val)], ret |-> Ok(None)]
    ELSE [self |-> s, ret |-> Ok(Some(val))]

\* a slip: the overflow branch rejects the value, as Buffer::add does
CircularBuffer_add_reject(s, val) ==
    IF Len(s.queue) < s.capacity
    THEN [self |-> [s EXCEPT !.queue = push(s.queue, val)], ret |-> Ok(None)]
    ELSE [self |-> s, ret |-> Err("The buffer is full")]

\* a slip: <= for < in the capacity guard, so one element too many is kept
CircularBuffer_add_offbyone(s, val) ==
    IF Len(s.queue) <= s.capacity
    THEN [self |-> [s EXCEPT !.queue = push(s.queue, val)], ret |-> Ok(None)]
    ELSE LET pushed == push(s.queue, val)
         IN  [self |-> [s EXCEPT !.queue = remove0(pushed).rest],
              ret |-> Ok(Some(remove0(pushed).elem))]

CircularBuffer_add(s, val) ==
    IF Len(s.queue) < s.capacity
    THEN [self |-> [s EXCEPT !.queue = push(s.queue, val)], ret |-> Ok(None)]
    ELSE LET pushed == push(s.queue, val)
         IN  [self |-> [s EXCEPT !.queue = remove0(pushed).rest],
              ret |-> Ok(Some(remove0(pushed).elem))]

\* a slip: the default value is not pushed back
CircularBuffer_remove_norefill(s) ==
    IF ~is_empty(s.queue)
    THEN [self |-> [s EXCEPT !.queue = remove0(s.queue).rest],
          ret |-> Ok(Some(remove0(s.queue).elem))]
    ELSE [self |-> s, ret |-> Err("The Buffer is empty")]

\* a slip: after the push, the newest element (Vec::pop) is taken
CircularBuffer_remove_newest(s) ==
    IF ~is_empty(s.queue)
    THEN LET pushed == IF s.default_value # None
                       THEN push(s.queue, s.default_value[1])
                       ELSE s.queue
         IN  [self |-> [s EXCEPT !.queue = SubSeq(pushed, 1, Len(pushed) - 1)],
              ret |-> Ok(Some(pushed[Len(pushed)]))]
    ELSE [self |-> s, ret |-> Err("The Buffer is empty")]

CircularBuffer_remove(s) ==
    IF ~is_empty(s.queue)
    THEN LET pushed == IF s.default_value # None
                       THEN push(s.queue, s.default_value[1])
                       ELSE s.queue
         IN  [self |-> [s EXCEPT !.queue = remove0(pushed).rest],
              ret |-> Ok(Some(remove0(pushed).elem))]
    ELSE [self |-> s, ret |-> Err("The Buffer is empty")]

CircularBuffer_peek(s) ==
    IF first(s.queue) # None
    THEN [self |-> s, ret |-> Ok(first(s.queue))]
    ELSE [self |-> s, ret |-> Err("The Queue is empty")]

CircularBuffer_size(s) == Len(s.queue)

(* ----------------------------- error kinds ----------------------------- *)

\* the &str messages of the two error kinds
FullMsgs == {"The buffer is full"}
EmptyMsgs == {"The queue is empty", "The Queue is empty",
              "The buffer is empty", "The Buffer is empty"}

IsOk(r) == r.tag = "Ok"
IsFull(r) == r.tag = "Err" /\ r.msg \in FullMsgs
IsEmpty(r) == r.tag = "Err" /\ r.msg \in EmptyMsgs

(* ------------------------------- program ------------------------------- *)

\* IsQueue::size of the container in use
size(s) ==
    CASE variant = "Queue" -> Queue_size(s)
      [] variant = "Buffer" -> Buffer_size(s)
      [] variant = "CircularBuffer" -> CircularBuffer_size(s)

InitQueue ==
    /\ variant = "Queue"
    /\ ctor = <<>>
    /\ self \in {Queue_new, Queue_default}

InitBuffer ==
    /\ variant = "Buffer"
    /\ \E c \in Caps : ctor = <<c>> /\ self = Buffer_new(c)

InitCircularBuffer ==
    /\ variant = "CircularBuffer"
    /\ \/ \E c \in Caps : ctor = <<c>> /\ self = CircularBuffer_new(c)
       \/ \E c \in Caps, d \in Vals :
              ctor = <<c, d>> /\ self = CircularBuffer_with_default(c, d)

Init ==
    /\ log = <<>>
    /\ (InitQueue \/ InitBuffer \/ InitCircularBuffer)

\* one call: the receiver becomes r.self and the call is logged
Call(op, arg, r) ==
    /\ Len(log) < MaxOps
    /\ self' = r.self
    /\ log' = Append(log, [op |-> op, arg |-> arg, pre |-> self, ret |-> r.ret])
    /\ UNCHANGED <<variant, ctor>>

QueueAdd == variant = "Queue" /\ \E v \in Vals : Call("add", Some(v), Queue_add(self, v))
QueueRemove == variant = "Queue" /\ Call("remove", None, Queue_remove(self))
QueuePeek == variant = "Queue" /\ Call("peek", None, Queue_peek(self))

BufferAdd == variant = "Buffer" /\ \E v \in Vals : Call("add", Some(v), Buffer_add(self, v))
BufferRemove == variant = "Buffer" /\ Call("remove", None, Buffer_remove(self))
BufferPeek == variant = "Buffer" /\ Call("peek", None, Buffer_peek(self))

CircularBufferAdd ==
    variant = "CircularBuffer" /\ \E v \in Vals : Call("add", Some(v), CircularBuffer_add(self, v))
CircularBufferRemove ==
    variant = "CircularBuffer" /\ Call("remove", None, CircularBuffer_remove(self))
CircularBufferPeek ==
    variant = "CircularBuffer" /\ Call("peek", None, CircularBuffer_peek(self))

Next ==
    \/ QueueAdd
    \/ QueueRemove
    \/ QueuePeek
    \/ BufferAdd
    \/ BufferRemove
    \/ BufferPeek
    \/ CircularBufferAdd
    \/ CircularBufferRemove
    \/ CircularBufferPeek

Spec == Init /\ [][Next]_vars

\* the argument lists given to queue!
ArgLists == UNION {[1..n -> Vals] : n \in 0..MaxArgs}

\* a Queue built by queue![x1, ..., xn] and then used through IsQueue
InitMacro ==
    /\ log = <<>>
    /\ variant = "Queue"
    /\ \E xs \in ArgLists : ctor = xs /\ self = queue_macro(xs)

NextMacro ==
    \/ QueueAdd
    \/ QueueRemove
    \/ QueuePeek

SpecMacro == InitMacro /\ [][NextMacro]_vars

(* --------------------------- reading the log --------------------------- *)

\* the container is a CircularBuffer built by with_default / by new
HasDefault == variant = "CircularBuffer" /\ self.default_value # None
NoDefault == variant = "CircularBuffer" /\ self.default_value = None

Called == Len(log) > 0
Last == log[Len(log)]
LastIs(op) == Called /\ Last.op = op

\* the calls of the log, by operation
Calls(op) == SelectSeq(log, LAMBDA e : e.op = op)
HasCall(op) == \E i \in 1..Len(log) : log[i].op = op

TypeOK ==
    /\ variant \in {"Queue", "Buffer", "CircularBuffer"}
    /\ Len(log) <= MaxOps
    /\ \A i \in 1..Len(self.queue) : self.queue[i] \in Vals

\* values passed to add, in call order
AddedVals ==
    LET adds == Calls("add")
    IN  [i \in 1..Len(adds) |-> adds[i].arg[1]]

\* values returned by the remove calls that returned Ok, in call order
RemovedVals ==
    LET rems == SelectSeq(log, LAMBDA e : e.op = "remove" /\ IsOk(e.ret))
    IN  [i \in 1..Len(rems) |-> rems[i].ret.val[1]]

IsPrefix(a, b) == Len(a) <= Len(b) /\ SubSeq(b, 1, Len(a)) = a

(* ------------------------------- claims -------------------------------- *)

\* C1: a CircularBuffer built by with_default(capacity, d) has
\* size() == capacity == the constructor's capacity right after construction
\* and after every sequence of add, remove and peek calls, capacity 0 included.
C1_DefaultSizeIsCapacity ==
    HasDefault =>
        /\ size(self) = CircularBuffer_capacity(self)
        /\ size(self) = ctor[1]

C1_Witness ==
    /\ HasDefault
    /\ ctor[1] = 2
    /\ HasCall("add") /\ HasCall("peek")
    /\ LastIs("remove")
    /\ size(self) = 2

\* C2 as stated: on a default-valued CircularBuffer of any capacity, 0
\* included, remove and peek return Ok and never the Empty error.
C2_Original ==
    (HasDefault /\ (LastIs("remove") \/ LastIs("peek"))) =>
        IsOk(Last.ret) /\ ~IsEmpty(Last.ret)

\* C2 amended: on a default-valued CircularBuffer of capacity >= 1, remove and
\* peek return Ok carrying the oldest element and never the Empty error.
C2_DefaultNeverEmpty ==
    (HasDefault /\ ctor[1] >= 1 /\ (LastIs("remove") \/ LastIs("peek"))) =>
        /\ IsOk(Last.ret)
        /\ ~IsEmpty(Last.ret)
        /\ Last.ret.val = Some(Last.pre.queue[1])

C2_Witness ==
    /\ HasDefault
    /\ ctor[1] >= 1
    /\ Len(Calls("remove")) > ctor[1]
    /\ LastIs("peek")
    /\ IsOk(Last.ret)
    /\ \A i \in 1..Len(log) : IsOk(log[i].ret)

\* C3: Buffer.add(v) returns Full iff size() == capacity before the call; on
\* Full the queue and the capacity are as before; otherwise it returns
\* Ok(None), v is the newest element and size() has grown by exactly 1.
C3_BufferAddFull ==
    (variant = "Buffer" /\ LastIs("add")) =>
        LET pre == Last.pre
            v == Last.arg[1]
            r == Last.ret
        IN  /\ IsFull(r) <=> Buffer_size(pre) = Buffer_capacity(pre)
            /\ IsFull(r) => self = pre
            /\ ~IsFull(r) =>
                  /\ r = Ok(None)
                  /\ self.queue = Append(pre.queue, v)
                  /\ self.queue[Len(self.queue)] = v
                  /\ Buffer_size(self) = Buffer_size(pre) + 1
                  /\ Buffer_capacity(self) = Buffer_capacity(pre)

C3_Witness ==
    /\ variant = "Buffer"
    /\ \E i \in 1..Len(log) : log[i].op = "add" /\ IsFull(log[i].ret)
    /\ LastIs("add")
    /\ Last.ret = Ok(None)
    /\ Buffer_size(self) = Buffer_capacity(self)

\* C4: on a CircularBuffer without default value holding [x1..xn], add(v) with
\* n < capacity returns Ok(None) and leaves [x1..xn, v]; with
\* n == capacity >= 1 it returns Ok(Some(x1)), x1 the oldest element held, and
\* leaves [x2..xn, v] with size() unchanged.
C4_CircularAddEvictsOldest ==
    (NoDefault /\ LastIs("add")) =>
        LET pre == Last.pre
            v == Last.arg[1]
            r == Last.ret
            n == Len(pre.queue)
        IN  /\ n < pre.capacity =>
                  /\ r = Ok(None)
                  /\ self.queue = Append(pre.queue, v)
            /\ (n = pre.capacity /\ pre.capacity >= 1) =>
                  /\ r = Ok(Some(pre.queue[1]))
                  /\ self.queue = Append(Tail(pre.queue), v)
                  /\ CircularBuffer_size(self) = n

C4_Witness ==
    /\ NoDefault
    /\ \E i \in 1..Len(log) : log[i].op = "remove" /\ IsOk(log[i].ret)
    /\ \E i \in 1..Len(log) : log[i].op = "add" /\ log[i].ret = Ok(None)
    /\ LastIs("add")
    /\ Last.ret.val # None
    /\ Last.ret.val # Last.arg
    /\ Len(Last.pre.queue) = Last.pre.capacity

\* C5: Queue is FIFO: under any interleaving of add and remove, the values
\* returned by the successful removes, in call order, are a prefix of the
\* values passed to add, in call order.
C5_QueueFifo ==
    variant = "Queue" => IsPrefix(RemovedVals, AddedVals)

C5_Witness ==
    /\ variant = "Queue"
    /\ Len(log) = 4
    /\ \A i \in 1..2 : log[i].op = "add"
    /\ \A i \in 3..4 : log[i].op = "remove"
    /\ AddedVals = <<1, 2>>
    /\ RemovedVals = <<1, 2>>

\* C6: for Queue, Buffer and CircularBuffer without default value, remove and
\* peek return Empty iff size() == 0 before the call, a call that returns
\* Empty leaves the container as it was, and with size() > 0 remove returns
\* the oldest element and decreases size() by exactly 1.
C6_EmptyError ==
    (~HasDefault /\ (LastIs("remove") \/ LastIs("peek"))) =>
        LET pre == Last.pre
            r == Last.ret
        IN  /\ IsEmpty(r) <=> size(pre) = 0
            /\ ~IsEmpty(r) => IsOk(r)
            /\ IsEmpty(r) => self = pre
            /\ (LastIs("remove") /\ size(pre) > 0) =>
                  /\ r = Ok(Some(pre.queue[1]))
                  /\ size(self) = size(pre) - 1

C6_Witness ==
    /\ variant = "Buffer"
    /\ \E i \in 1..Len(log) : log[i].op = "remove" /\ IsEmpty(log[i].ret)
    /\ \E i \in 1..Len(log) : log[i].op = "peek" /\ IsEmpty(log[i].ret)
    /\ LastIs("remove")
    /\ Last.ret = Ok(Some(2))
    /\ Last.pre.queue = <<2, 1>>

\* C7: for a Buffer, 0 <= size() <= capacity in every reachable state, and
\* capacity() is the value given to Buffer::new after every sequence of calls.
C7_BufferBounded ==
    variant = "Buffer" =>
        /\ 0 <= Buffer_size(self)
        /\ Buffer_size(self) <= Buffer_capacity(self)
        /\ Buffer_capacity(self) = ctor[1]
        /\ Called => Buffer_capacity(self) = Buffer_capacity(Last.pre)

C7_Witness ==
    /\ variant = "Buffer"
    /\ ctor[1] = 1
    /\ Buffer_size(self) = 1
    /\ \E i \in 1..Len(log) : log[i].op = "add" /\ IsFull(log[i].ret)
    /\ \E i \in 1..Len(log) : log[i].op = "remove" /\ IsOk(log[i].ret)
    /\ HasCall("peek")

\* C8: for a CircularBuffer without default value, 0 <= size() <= capacity
\* after every completed operation, for every capacity >= 0, and capacity()
\* never changes.
C8_CircularBounded ==
    NoDefault =>
        /\ 0 <= CircularBuffer_size(self)
        /\ CircularBuffer_size(self) <= CircularBuffer_capacity(self)
        /\ CircularBuffer_capacity(self) = ctor[1]
        /\ Called => CircularBuffer_capacity(self) = CircularBuffer_capacity(Last.pre)

C8_Witness ==
    /\ NoDefault
    /\ ctor[1] = 1
    /\ HasCall("remove") /\ HasCall("peek")
    /\ LastIs("add")
    /\ Last.ret.val # None
    /\ CircularBuffer_size(self) = 1

\* C9: on a default-valued CircularBuffer with default d and capacity >= 1
\* holding [x1..xc], remove returns Ok(x1), the oldest element before the call,
\* and leaves [x2..xc, d].
C9_DefaultRemove ==
    (HasDefault /\ ctor[1] >= 1 /\ LastIs("remove")) =>
        LET pre == Last.pre
            d == ctor[2]
        IN  /\ Last.ret = Ok(Some(pre.queue[1]))
            /\ self.queue = Append(Tail(pre.queue), d)
            /\ self.queue[Len(self.queue)] = d

C9_Witness ==
    /\ HasDefault
    /\ ctor[1] >= 2
    /\ LastIs("remove")
    /\ Last.ret.val # Some(ctor[2])
    /\ Last.pre.queue[Len(Last.pre.queue)] # ctor[2]

\* C10 as stated: on a default-valued CircularBuffer, in every reachable
\* state, add(v) returns Ok(Some(e)) where e is the oldest element held before
\* the call.
C10_Original ==
    (HasDefault /\ LastIs("add")) =>
        /\ Len(Last.pre.queue) > 0
        /\ Last.ret = Ok(Some(Last.pre.queue[1]))

\* C10 amended: on a default-valued CircularBuffer every add(v) returns
\* Ok(Some(e)), never Ok(None) and never an error; e is the oldest element
\* held before the call when capacity >= 1, and v itself when capacity is 0.
C10_DefaultAddEvicts ==
    (HasDefault /\ LastIs("add")) =>
        LET pre == Last.pre
            v == Last.arg[1]
            r == Last.ret
        IN  /\ IsOk(r)
            /\ r.val # None
            /\ ctor[1] >= 1 => r = Ok(Some(pre.queue[1]))
            /\ ctor[1] = 0 => r = Ok(Some(v))

C10_Witness ==
    /\ HasDefault
    /\ ctor[1] >= 1
    /\ HasCall("remove")
    /\ LastIs("add")
    /\ Last.ret.val # None
    /\ Last.ret.val # Last.arg
    /\ Last.ret.val # Some(ctor[2])

\* the call before the last one
Prev == log[Len(log) - 1]
PrevIs(op) == Len(log) >= 2 /\ Prev.op = op

\* C11: peek has no effect on state, in every variant: whether it returns Ok
\* or Empty, the container after the call is the container before it (queue,
\* size() and capacity), an immediately following peek returns the same
\* result, and an immediately following remove returns the value that the
\* peek returned (or Empty when the peek returned Empty).
C11_PeekNoEffect ==
    /\ LastIs("peek") =>
          /\ self = Last.pre
          /\ size(self) = size(Last.pre)
    /\ (PrevIs("peek") /\ LastIs("peek")) => Last.ret = Prev.ret
    /\ (PrevIs("peek") /\ LastIs("remove")) =>
          /\ IsOk(Prev.ret) => Last.ret = Ok(Prev.ret.val)
          /\ IsEmpty(Prev.ret) => IsEmpty(Last.ret)

C11_Witness ==
    /\ variant = "Queue"
    /\ Len(log) >= 5
    /\ log[Len(log) - 2].op = "peek"
    /\ PrevIs("peek")
    /\ LastIs("remove")
    /\ Last.ret = Ok(Some(2))
    /\ Last.pre.queue = <<2, 1>>
    /\ self.queue = <<1>>

\* every call made so far is an add
OnlyAdds == \A i \in 1..Len(log) : log[i].op = "add"

\* C12: on a Buffer of capacity c >= 0 starting empty, the first c consecutive
\* adds all return Ok(None) and the (c+1)-th returns Full; for c == 0 every
\* add returns Full and size() stays 0.
C12_BufferFillsThenFull ==
    (variant = "Buffer" /\ OnlyAdds) =>
        LET c == ctor[1]
        IN  /\ \A i \in 1..Len(log) :
                  /\ i <= c => log[i].ret = Ok(None)
                  /\ i = c + 1 => IsFull(log[i].ret)
                  /\ c = 0 => IsFull(log[i].ret) /\ Buffer_size(log[i].pre) = 0
            /\ c = 0 => Buffer_size(self) = 0
            /\ Len(log) <= c => Buffer_size(self) = Len(log)

C12_Witness ==
    /\ variant = "Buffer"
    /\ ctor[1] = 3
    /\ OnlyAdds
    /\ Len(log) = 4
    /\ \A i \in 1..3 : log[i].ret = Ok(None)
    /\ IsFull(Last.ret)
    /\ Buffer_size(self) = 3

\* C13: on a Buffer in any reachable state, an add issued immediately after a
\* remove that returned Ok returns Ok(None), also when the buffer was full
\* before that remove.
C13_AddAfterRemove ==
    (variant = "Buffer" /\ PrevIs("remove") /\ IsOk(Prev.ret) /\ LastIs("add")) =>
        /\ Last.ret = Ok(None)
        /\ self.queue = Append(Tail(Prev.pre.queue), Last.arg[1])

C13_Witness ==
    /\ variant = "Buffer"
    /\ PrevIs("remove")
    /\ IsOk(Prev.ret)
    /\ Buffer_size(Prev.pre) = Buffer_capacity(Prev.pre)
    /\ \E i \in 1..Len(log) : IsFull(log[i].ret)
    /\ LastIs("add")
    /\ Last.ret = Ok(None)

\* C14: on a CircularBuffer of capacity 0, built by new or by with_default,
\* every add(v) returns Ok(Some(v)), the value just added, and size() is 0
\* before and after every add.
C14_ZeroCapacityPassThrough ==
    (variant = "CircularBuffer" /\ ctor[1] = 0) =>
        /\ CircularBuffer_size(self) = 0
        /\ LastIs("add") =>
              /\ Last.ret = Ok(Some(Last.arg[1]))
              /\ CircularBuffer_size(Last.pre) = 0

C14_Witness ==
    /\ HasDefault
    /\ ctor[1] = 0
    /\ Len(Calls("add")) >= 2
    /\ LastIs("add")
    /\ Last.ret = Ok(Some(2))
    /\ ctor[2] = 1
    /\ CircularBuffer_size(self) = 0

\* C15: the add outcomes are exclusive per variant: Queue.add always returns
\* Ok(None) and grows size() by 1; Queue.add and Buffer.add never return
\* Ok(Some(_)); Queue.add and CircularBuffer.add (both modes) never return an
\* error; Full comes only from Buffer.add.
C15_AddOutcomes ==
    /\ LastIs("add") =>
          /\ variant = "Queue" =>
                /\ Last.ret = Ok(None)
                /\ Queue_size(self) = Queue_size(Last.pre) + 1
          /\ variant = "Buffer" => ~(IsOk(Last.ret) /\ Last.ret.val # None)
          /\ variant = "CircularBuffer" => IsOk(Last.ret)
    /\ (Called /\ IsFull(Last.ret)) => (variant = "Buffer" /\ Last.op = "add")

C15_Witness ==
    /\ NoDefault
    /\ ctor[1] = 2
    /\ Len(Calls("add")) >= 4
    /\ \E i \in 1..Len(log) : log[i].op = "add" /\ log[i].ret = Ok(None)
    /\ LastIs("add")
    /\ IsOk(Last.ret)
    /\ Last.ret.val # None

\* the number of add calls among the first n calls
AddsIn(n) == Cardinality({j \in 1..n : log[j].op = "add"})

\* the number of remove calls among the first n calls that follow the last
\* add among them (all of them when there is no add)
RemovesSinceAdd(n) ==
    Cardinality({j \in 1..n : /\ log[j].op = "remove"
                              /\ \A k \in j..n : log[k].op # "add"})

\* C16: on a freshly constructed with_default(c, d) CircularBuffer with
\* c >= 1 that is only added to and peeked at: each of the first c adds
\* returns Ok(Some(d)); after k adds with k < c, peek returns Ok(d); after
\* exactly c adds, peek returns the first value that was added.
C16_DefaultFillUp ==
    (HasDefault /\ ctor[1] >= 1 /\ ~HasCall("remove")) =>
        LET c == ctor[1]
            d == ctor[2]
        IN  \A i \in 1..Len(log) :
                LET k == AddsIn(i - 1)
                IN  /\ (log[i].op = "add" /\ k < c) => log[i].ret = Ok(Some(d))
                    /\ (log[i].op = "peek" /\ k < c) => log[i].ret = Ok(Some(d))
                    /\ (log[i].op = "peek" /\ k = c) =>
                          log[i].ret = Ok(Some(AddedVals[1]))

C16_Witness ==
    /\ HasDefault
    /\ ctor = <<2, 1>>
    /\ Len(log) = 5
    /\ log[1].op = "peek" /\ log[1].ret = Ok(Some(1))
    /\ log[2].op = "add" /\ log[2].arg = Some(2) /\ log[2].ret = Ok(Some(1))
    /\ log[3].op = "peek" /\ log[3].ret = Ok(Some(1))
    /\ log[4].op = "add" /\ log[4].ret = Ok(Some(1))
    /\ log[5].op = "peek" /\ log[5].ret = Ok(Some(2))

\* C17: on a default-valued CircularBuffer with default d and capacity
\* c >= 1, in any reachable state, once c removes have been made with no add
\* in between, every element held equals d: size() is c, peek returns Ok(d)
\* and every further remove returns Ok(d).
C17_DefaultDrained ==
    (HasDefault /\ ctor[1] >= 1) =>
        LET c == ctor[1]
            d == ctor[2]
        IN  /\ RemovesSinceAdd(Len(log)) >= c =>
                  /\ CircularBuffer_size(self) = c
                  /\ \A i \in 1..Len(self.queue) : self.queue[i] = d
            /\ \A i \in 1..Len(log) :
                  (log[i].op \in {"peek", "remove"} /\ RemovesSinceAdd(i - 1) >= c)
                      => log[i].ret = Ok(Some(d))

C17_Witness ==
    /\ HasDefault
    /\ ctor = <<2, 1>>
    /\ Len(log) = 5
    /\ log[1].op = "add" /\ log[1].arg = Some(2)
    /\ log[2].op = "remove" /\ log[2].ret = Ok(Some(1))
    /\ log[3].op = "remove" /\ log[3].ret = Ok(Some(2))
    /\ log[4].op = "peek" /\ log[4].ret = Ok(Some(1))
    /\ log[5].op = "remove" /\ log[5].ret = Ok(Some(1))
    /\ self.queue = <<1, 1>>

\* C18: right after construction size() is 0 for Queue::new, Queue::default,
\* Buffer::new(c) and CircularBuffer::new(c), for every c; for
\* CircularBuffer::with_default(c, d) it is c, every element equals d, and
\* capacity() returns c.
C18_SizeAfterConstruction ==
    ~Called =>
        /\ variant = "Queue" =>
              /\ self \in {Queue_new, Queue_default}
              /\ size(self) = 0
        /\ variant = "Buffer" =>
              /\ size(self) = 0
              /\ Buffer_capacity(self) = ctor[1]
        /\ NoDefault =>
              /\ size(self) = 0
              /\ CircularBuffer_capacity(self) = ctor[1]
        /\ HasDefault =>
              /\ size(self) = ctor[1]
              /\ \A i \in 1..Len(self.queue) : self.queue[i] = ctor[2]
              /\ CircularBuffer_capacity(self) = ctor[1]

C18_Witness ==
    /\ ~Called
    /\ HasDefault
    /\ ctor = <<3, 2>>
    /\ self.queue = <<2, 2, 2>>

\* the number of remove calls among the first n calls
RemovesIn(n) == Cardinality({j \in 1..n : log[j].op = "remove"})

\* C19 (under SpecMacro): queue![x1, ..., xn] builds the Queue that
\* Queue::new followed by add(x1), ..., add(xn) builds: the backing sequence
\* is x1..xn with x1 the oldest, so size() is n, peek returns Ok(x1), and n
\* removes return x1..xn in that order; queue![] has size() 0.
C19_QueueMacro ==
    LET xs == ctor
        n == Len(ctor)
    IN  /\ ~Called =>
              /\ self.queue = xs
              /\ self = queue_adds(Queue_new, xs)
              /\ Queue_size(self) = n
        /\ ~HasCall("add") =>
              \A i \in 1..Len(log) :
                  LET k == RemovesIn(i - 1)
                  IN  k < n => log[i].ret = Ok(Some(xs[k + 1]))

C19_Witness ==
    /\ ctor = <<2, 1, 1>>
    /\ Len(log) = 4
    /\ log[1].op = "peek" /\ log[1].ret = Ok(Some(2))
    /\ \A i \in 2..4 : log[i].op = "remove"
    /\ RemovedVals = <<2, 1, 1>>
    /\ Queue_size(self) = 0

\* the call e made on a Queue / on a Buffer
Queue_call(s, e) ==
    CASE e.op = "add" -> Queue_add(s, e.arg[1])
      [] e.op = "remove" -> Queue_remove(s)
      [] e.op = "peek" -> Queue_peek(s)

Buffer_call(s, e) ==
    CASE e.op = "add" -> Buffer_add(s, e.arg[1])
      [] e.op = "remove" -> Buffer_remove(s)
      [] e.op = "peek" -> Buffer_peek(s)

\* the first n calls of the log made on a new Queue / a new Buffer of
\* capacity c: the container reached and the results returned
RECURSIVE RunQueue(_)
RunQueue(n) ==
    IF n = 0
    THEN [self |-> Queue_new, rets |-> <<>>]
    ELSE LET p == RunQueue(n - 1)
             r == Queue_call(p.self, log[n])
         IN  [self |-> r.self, rets |-> Append(p.rets, r.ret)]

RECURSIVE RunBuffer(_, _)
RunBuffer(c, n) ==
    IF n = 0
    THEN [self |-> Buffer_new(c), rets |-> <<>>]
    ELSE LET p == RunBuffer(c, n - 1)
             r == Buffer_call(p.self, log[n])
         IN  [self |-> r.self, rets |-> Append(p.rets, r.ret)]

\* two Results are the same outcome: same Ok payload or same error kind (the
\* message texts differ between the variants)
SameResult(r1, r2) ==
    /\ r1.tag = r2.tag
    /\ r1.val = r2.val
    /\ IsEmpty(r1) <=> IsEmpty(r2)
    /\ IsFull(r1) <=> IsFull(r2)

\* no add of the log was issued at size() == capacity
NoAddAtCapacity ==
    \A i \in 1..Len(log) :
        log[i].op = "add" => Len(log[i].pre.queue) # log[i].pre.capacity

\* C20: run on the same sequence of add, remove and peek calls, a Buffer and
\* a Queue return the same results and hold the same backing sequence as long
\* as no add is issued at size() == capacity, and so do a CircularBuffer
\* without default value and a Buffer of the same capacity.
C20_BoundedRestrictQueue ==
    /\ (variant = "Buffer" /\ NoAddAtCapacity) =>
          LET q == RunQueue(Len(log))
          IN  /\ q.self.queue = self.queue
              /\ \A i \in 1..Len(log) : SameResult(q.rets[i], log[i].ret)
    /\ (NoDefault /\ NoAddAtCapacity) =>
          LET b == RunBuffer(ctor[1], Len(log))
          IN  /\ b.self.queue = self.queue
              /\ Buffer_capacity(b.self) = CircularBuffer_capacity(self)
              /\ \A i \in 1..Len(log) : SameResult(b.rets[i], log[i].ret)

C20_Witness ==
    /\ variant = "Buffer"
    /\ NoAddAtCapacity
    /\ Len(Calls("add")) >= 2
    /\ \E i \in 1..Len(log) :
          /\ log[i].op = "peek"
          /\ log[i].pre.queue = <<1, 2>>
          /\ log[i].ret = Ok(Some(1))
    /\ \E i \in 1..Len(log) : log[i].op = "remove" /\ IsEmpty(log[i].ret)
    /\ LastIs("remove")
    /\ Last.ret = Ok(Some(1))

\* values handed back to the caller, in call order: by a remove that returned
\* Ok(x) or by an add that returned Ok(Some(x))
HandedBack ==
    LET outs == SelectSeq(log, LAMBDA e : /\ e.op \in {"add", "remove"}
                                          /\ IsOk(e.ret)
                                          /\ e.ret.val # None)
    IN  [i \in 1..Len(outs) |-> outs[i].ret.val[1]]

\* C21: on a CircularBuffer without default value and capacity >= 1, under
\* any interleaving of add and remove, the values handed back (as remove's
\* Ok(x) or as add's Ok(Some(x))), in call order, are a prefix of the values
\* passed to add, in call order, and the backing sequence is the contiguous
\* remainder of the added values that follows that prefix.
C21_CircularFifo ==
    (NoDefault /\ ctor[1] >= 1) =>
        /\ IsPrefix(HandedBack, AddedVals)
        /\ AddedVals = HandedBack \o self.queue

C21_Witness ==
    /\ NoDefault
    /\ ctor[1] = 2
    /\ \E i \in 1..Len(log) : log[i].op = "remove" /\ IsOk(log[i].ret)
    /\ \E i \in 1..Len(log) : log[i].op = "add" /\ log[i].ret.val # None
    /\ HandedBack = <<1, 2>>
    /\ self.queue = <<2, 1>>

\* the number of mutating calls (add or remove; peek does not count) among
\* the calls i+1..j
MutatingIn(i, j) ==
    Cardinality({k \in (i + 1)..j : log[k].op \in {"add", "remove"}})

\* the container after the j-th call
After(j) == IF j = Len(log) THEN self ELSE log[j + 1].pre

\* C22: in a default-valued CircularBuffer of capacity c >= 1, the value v
\* passed to an add is handed back (as remove's Ok(v) or as a later add's
\* Ok(Some(v))) by exactly the c-th mutating call (add or remove) that
\* follows that add: after m < c such calls it is still held, at index c - m
\* of the queue (the c-th-from-oldest slot moving one step per call), and the
\* c-th such call returns it; peek calls do not count.
C22_DefaultLatency ==
    (HasDefault /\ ctor[1] >= 1) =>
        LET c == ctor[1]
        IN  \A i \in 1..Len(log) :
                log[i].op = "add" =>
                    \A j \in i..Len(log) :
                        LET m == MutatingIn(i, j)
                            v == log[i].arg[1]
                        IN  /\ m < c =>
                                  /\ Len(After(j).queue) = c
                                  /\ After(j).queue[c - m] = v
                            /\ (m = c /\ log[j].op \in {"add", "remove"}) =>
                                  log[j].ret = Ok(Some(v))

C22_Witness ==
    /\ HasDefault
    /\ ctor = <<2, 1>>
    /\ Len(log) = 5
    /\ log[1].op = "add" /\ log[1].arg = Some(2) /\ log[1].ret = Ok(Some(1))
    /\ log[2].op = "peek" /\ log[2].ret = Ok(Some(1))
    /\ log[3].op = "remove" /\ log[3].ret = Ok(Some(1))
    /\ log[4].op = "peek" /\ log[4].ret = Ok(Some(2))
    /\ log[5].op = "add" /\ log[5].arg = Some(1) /\ log[5].ret = Ok(Some(2))

Min(a, b) == IF a <= b THEN a ELSE b
Max(a, b) == IF a >= b THEN a ELSE b

\* C23: on a fresh CircularBuffer without default value of capacity c, after
\* k adds v1..vk with no remove in between, the backing sequence is the last
\* min(k, c) added values in insertion order, the first max(k - c, 0) values
\* were returned as Ok(Some(_)), in insertion order, by the adds number
\* c+1..k (the adds 1..c returned Ok(None)), and for c >= 1 peek returns the
\* value number max(k - c, 0) + 1.
C23_CircularWindow ==
    (NoDefault /\ ~HasCall("remove")) =>
        LET c == ctor[1]
            k == Len(AddedVals)
        IN  /\ self.queue = SubSeq(AddedVals, k - Min(k, c) + 1, k)
            /\ HandedBack = SubSeq(AddedVals, 1, Max(k - c, 0))
            /\ \A i \in 1..Len(log) :
                  LET j == AddsIn(i)
                  IN  /\ (log[i].op = "add" /\ j <= c) => log[i].ret = Ok(None)
                      /\ (log[i].op = "add" /\ j > c) =>
                            log[i].ret = Ok(Some(AddedVals[j - c]))
                      /\ (log[i].op = "peek" /\ c >= 1 /\ j >= 1) =>
                            log[i].ret = Ok(Some(AddedVals[Max(j - c, 0) + 1]))

C23_Witness ==
    /\ NoDefault
    /\ ctor[1] = 2
    /\ ~HasCall("remove")
    /\ AddedVals = <<1, 2, 2, 1>>
    /\ HandedBack = <<1, 2>>
    /\ self.queue = <<2, 1>>
    /\ LastIs("peek")
    /\ Last.ret = Ok(Some(2))

\* the number of logged calls of operation op that returned Ok
OkCalls(op) ==
    Cardinality({i \in 1..Len(log) : log[i].op = op /\ IsOk(log[i].ret)})

\* the number of add calls that returned Ok(Some(_))
EvictingAdds ==
    Cardinality({i \in 1..Len(log) : /\ log[i].op = "add"
                                     /\ IsOk(log[i].ret)
                                     /\ log[i].ret.val # None})

\* C24: elements are conserved: for Queue, Buffer and CircularBuffer without
\* default value, in every reachable state size() is the number of adds that
\* returned Ok, minus the number of adds that returned Ok(Some(_)), minus the
\* number of removes that returned Ok; failing calls and peek leave size()
\* as it was, and every single call changes size() by at most 1.
C24_ElementsConserved ==
    ~HasDefault =>
        /\ size(self) = OkCalls("add") - EvictingAdds - OkCalls("remove")
        /\ Called =>
              /\ size(self) - size(Last.pre) \in {-1, 0, 1}
              /\ (Last.op = "peek" \/ ~IsOk(Last.ret)) =>
                    size(self) = size(Last.pre)

C24_Witness ==
    /\ NoDefault
    /\ ctor[1] = 1
    /\ \E i \in 1..Len(log) : log[i].op = "remove" /\ IsEmpty(log[i].ret)
    /\ HasCall("peek")
    /\ OkCalls("add") = 2
    /\ EvictingAdds = 1
    /\ OkCalls("remove") = 1
    /\ size(self) = 0

====
